---------------------------- MODULE Spec2Model ----------------------------
(***************************************************************************)
(* The lexer of src/main.c as a state machine.                             *)
(*                                                                         *)
(* The program opens one file and calls next_token until it returns the    *)
(* TOK_EOF token, printing every token.  The state is the stream (its      *)
(* bytes and its read position), the locals of the scanning functions that *)
(* live across loop iterations, the token last returned and the lines      *)
(* printed so far.  Every loop of the source advances one iteration per    *)
(* step, so that a loop that never ends is a cycle of the model.           *)
(*                                                                         *)
(* Characters are integers.  The stream holds bytes 0..255; fgetc returns  *)
(* a byte or EOF (-1); take_char narrows that int to a plain char, which   *)
(* is signed on the platform the program is written for (glibc, %m in its  *)
(* diagnostics): bytes 128..255 become -128..-1.  The stream is assumed    *)
(* opened and free of read errors (ferror is never set).                   *)
(***************************************************************************)
EXTENDS Integers, Sequences, FiniteSets

VARIABLES
    input,      \* the bytes of the file, each in 0..255
    pos,        \* number of bytes of input the stream has handed out
    pc,         \* where the program is
    tok,        \* main's tok: the token next_token returned last
    printed,    \* the lines print_tok has written, oldest first
    buf,        \* take_string's buf[0..len-1] / take_ident's buf[0..str_len-1]
    cap,        \* take_string's cap
    escaping,   \* take_string's escaping
    quote,      \* take_string's target_quote
    out,        \* take_num's out
    diag,       \* the character a PANIC named, as a sequence of 0 or 1 chars
    tokStart,   \* history: the stream position of the first character of the
                \* token (or offending character) the current call met
    extra       \* history: calls of next_token made after main's loop ended

vars == <<input, pos, pc, tok, printed, buf, cap, escaping, quote, out,
          diag, tokStart, extra>>

---------------------------------------------------------------------------
(* Bounds of the model *)

\* longest input of the exhaustive family
MaxLen == 3
\* longest body of the string-literal family
MaxBody == 3
\* end-of-input markers take_string is followed appending
MaxEofAppends == 3
\* calls of next_token a client makes after the one that returned TOK_EOF
MaxExtraCalls == 2

---------------------------------------------------------------------------
(* Characters *)

Printable ==
    <<" ", "!", "\"", "#", "$", "%", "&", "'", "(", ")", "*", "+", ",", "-",
      ".", "/", "0", "1", "2", "3", "4", "5", "6", "7", "8", "9", ":", ";",
      "<", "=", ">", "?", "@", "A", "B", "C", "D", "E", "F", "G", "H", "I",
      "J", "K", "L", "M", "N", "O", "P", "Q", "R", "S", "T", "U", "V", "W",
      "X", "Y", "Z", "[", "\\", "]", "^", "_", "(backquote)", "a", "b", "c", "d", "e",
      "f", "g", "h", "i", "j", "k", "l", "m", "n", "o", "p", "q", "r", "s",
      "t", "u", "v", "w", "x", "y", "z", "{", "|", "}", "~">>

\* the code of a printable ASCII character, ' ' = 32 .. '~' = 126
Ord(ch) == 31 + (CHOOSE i \in 1..Len(Printable) : Printable[i] = ch)

\* the codes of a tuple of printable characters
Str(t) == [i \in 1..Len(t) |-> Ord(t[i])]

Rep(ch, n) == [i \in 1..n |-> ch]

\* stdio's EOF, and the characters the source names by escape sequences
EOF == -1
NUL == 0
TAB == 9
NL == 10
SQUOTE == Ord("'")
DQUOTE == Ord("\"")
BACKSLASH == Ord("\\")
SLASH == Ord("/")
UNDERSCORE == Ord("_")
\* the one byte whose char value is that of EOF
BYTE_FF == 256 + EOF

\* (char) of an int that is a byte or EOF, plain char being signed
ToChar(i) == IF i >= 128 THEN i - 256 ELSE i

\* the same without the vertical tab and the form feed
isspaceNoVtFf(c) == c \in {9, 10, 13, 32}
isspace(c) == c \in {9, 10, 11, 12, 13, 32}
isdigit(c) == c \in 48..57
isalpha(c) == c \in 65..90 \/ c \in 97..122
isalnum(c) == isalpha(c) \/ isdigit(c)

---------------------------------------------------------------------------
(* The stream *)

\* fgetc: the next byte, or EOF at the end of the file (and every time after)
Fgetc(p) == IF p < Len(input) THEN input[p + 1] ELSE EOF

\* take_char: the char read and the position after the read
TakeChar(p) ==
    [ch |-> ToChar(Fgetc(p)), pos |-> IF p < Len(input) THEN p + 1 ELSE p]

\* ungetc(ch, f) with the stream at position p: pushes (unsigned char)ch
\* back, and does nothing when ch == EOF.  Every ungetc of the program
\* follows a read that returned ch, so a pushed-back char is the byte just
\* read and the stream is where it was before that read.
Ungetc(ch, p) == IF ch = EOF THEN p ELSE p - 1

\* peek_char: take_char, then ungetc of the char it returned
PeekChar(p) ==
    LET r == TakeChar(p)
    IN  [ch |-> r.ch, pos |-> Ungetc(r.ch, r.pos)]

---------------------------------------------------------------------------
(* Tokens *)

TokenTypes ==
    {"EOF", "PLUS", "MINUS", "LPAREN", "RPAREN", "LBRACE", "RBRACE",
     "LBRACKET", "RBRACKET", "SEMICOLON", "EQUALS", "NUMBER", "IDENT",
     "STRING", "LET"}

names ==
    [t \in TokenTypes |->
        CASE t = "EOF" -> "EOF"
          [] t = "PLUS" -> "+"
          [] t = "MINUS" -> "-"
          [] t = "LPAREN" -> "("
          [] t = "RPAREN" -> ")"
          [] t = "LBRACE" -> "{"
          [] t = "RBRACE" -> "}"
          [] t = "LBRACKET" -> "["
          [] t = "RBRACKET" -> "]"
          [] t = "SEMICOLON" -> ";"
          [] t = "EQUALS" -> "="
          [] t = "NUMBER" -> "NUMBER"
          [] t = "IDENT" -> "IDENT"
          [] t = "LET" -> "LET"
          [] t = "STRING" -> "STRING"]

\* A Token: its type and its TokenValue.  value says which member of the
\* union was stored: "zero" (the initializer 0 / a null pointer), "int"
\* (number_value) or "ptr" (string_value, str being the chars it points to
\* up to the terminator the code wrote).
ZeroTok(t) == [type |-> t, value |-> "zero", num |-> 0, str |-> <<>>]
NumberTok(n) == [type |-> "NUMBER", value |-> "int", num |-> n, str |-> <<>>]
TextTok(t, s) == [type |-> t, value |-> "ptr", num |-> 0, str |-> s]

\* the same with the token of '[' pasted into the case of ']'
PunctTypePasted(c) ==
    CASE c = Ord("+") -> "PLUS"
      [] c = Ord("-") -> "MINUS"
      [] c = Ord("(") -> "LPAREN"
      [] c = Ord(")") -> "RPAREN"
      [] c = Ord("{") -> "LBRACE"
      [] c = Ord("}") -> "RBRACE"
      [] c = Ord("[") -> "LBRACKET"
      [] c = Ord("]") -> "LBRACKET"
      [] c = Ord(";") -> "SEMICOLON"
      [] c = Ord("=") -> "EQUALS"
      [] OTHER -> "NONE"

\* the token of a punctuation character
PunctType(c) ==
    CASE c = Ord("+") -> "PLUS"
      [] c = Ord("-") -> "MINUS"
      [] c = Ord("(") -> "LPAREN"
      [] c = Ord(")") -> "RPAREN"
      [] c = Ord("{") -> "LBRACE"
      [] c = Ord("}") -> "RBRACE"
      [] c = Ord("[") -> "LBRACKET"
      [] c = Ord("]") -> "RBRACKET"
      [] c = Ord(";") -> "SEMICOLON"
      [] c = Ord("=") -> "EQUALS"
      [] OTHER -> "NONE"

ident_to_token_type(ident) ==
    IF ident = Str(<<"l", "e", "t">>) THEN "LET" ELSE "IDENT"

\* a C string: the chars before the first NUL
CStr(s) ==
    LET nuls == {i \in 1..Len(s) : s[i] = NUL}
    IN  IF nuls = {} THEN s
        ELSE SubSeq(s, 1, (CHOOSE i \in nuls : \A j \in nuls : i <= j) - 1)

\* the same with the Let token printed by the case of the Identifier
PrintTokLetAsText(t) ==
    CASE t.type = "NUMBER" ->
            [name |-> names[t.type], shown |-> "num", num |-> t.num, text |-> <<>>]
      [] t.type \in {"IDENT", "STRING", "LET"} ->
            [name |-> names[t.type], shown |-> "text", num |-> 0, text |-> CStr(t.str)]
      [] OTHER ->
            [name |-> names[t.type], shown |-> "none", num |-> 0, text |-> <<>>]

\* print_tok: the line written for a token
PrintTok(t) ==
    CASE t.type = "NUMBER" ->
            [name |-> names[t.type], shown |-> "num", num |-> t.num, text |-> <<>>]
      [] t.type \in {"IDENT", "STRING"} ->
            [name |-> names[t.type], shown |-> "text", num |-> 0, text |-> CStr(t.str)]
      [] OTHER ->
            [name |-> names[t.type], shown |-> "none", num |-> 0, text |-> <<>>]

---------------------------------------------------------------------------
(* The files the program is run on *)

\* all sequences over S of length at most n
RECURSIVE SeqsUpTo(_, _)
SeqsUpTo(S, n) ==
    IF n = 0 THEN {<<>>}
    ELSE LET shorter == SeqsUpTo(S, n - 1)
         IN  shorter \cup {Append(s, x) : s \in shorter, x \in S}

\* one or two characters of every class next_token tells apart
Alphabet ==
    {Ord("+"), SLASH, NL, DQUOTE, SQUOTE, BACKSLASH, Ord("n"), UNDERSCORE,
     Ord("1"), NUL, BYTE_FF}

\* what the body of a string literal is made of
BodyAlphabet ==
    {DQUOTE, SQUOTE, BACKSLASH, Ord("n"), Ord("t"), Ord("a"), NUL, BYTE_FF}

\* every short file
ShortInputs == SeqsUpTo(Alphabet, MaxLen)

\* a quote, a body, and the same quote again
LiteralInputs ==
    {<<q>> \o b \o <<q>> : q \in {SQUOTE, DQUOTE}, b \in SeqsUpTo(BodyAlphabet, MaxBody)}

\* files of the kinds the lexer is written for
Scenarios ==
    { Str(<<"/", "/", " ", "c", "o", "m", "m", "e", "n", "t">>) \o <<NL>> \o Str(<<"-", "5">>),
      Str(<<"/", "/", " ", "n", "o", "t", "e">>),
      Str(<<"/", "/", "'", "1", "+", "a">>) \o <<NL>> \o Str(<<"a">>),
      Str(<<"/", "/">>) \o <<NUL, NL>> \o Str(<<"-", "5">>),
      Str(<<"/", "/">>) \o <<BYTE_FF, NL>> \o Str(<<"-", "5">>) \o <<NL>> \o Str(<<"+">>),
      Str(<<"l", "e", "t", " ", "x", " ", "=", " ", "1", "_", "2", " ", "+", " ", "3", ";">>),
      Str(<<"l", "e", "t">>),
      Str(<<"l", "e", "t", "x">>),
      Str(<<"_", "l", "e", "t">>),
      Str(<<"L", "e", "t">>),
      Str(<<"l", "e", "t", "+">>),
      Str(<<"a", "+", "1", ";">>),
      Str(<<"a">>) \o <<BYTE_FF>> \o Str(<<"+">>),
      Str(<<"1", "_", "0", "0", "0">>),
      Str(<<"1", "_", "_", "0">>),
      Str(<<"0", "0", "7", "_">>),
      Str(<<"2", "1", "4", "7", "4", "8", "3", "6", "4", "7">>),
      Str(<<"2", "1", "4", "7", "4", "8", "3", "6", "4", "8">>),
      Str(<<"9", "9", "9", "9", "9", "9", "9", "9", "9", "9", "9">>),
      Str(<<"(", ")", "{", "}", "[", "]", ";", "=", "+", "-">>),
      <<TAB, 11, 12, 13>> \o Str(<<" ", "x">>),
      Str(<<"/", " ", "1">>),
      Str(<<"*">>),
      Str(<<"\"", "h", "i", "\\", "n", "\\", "t", "\\", "\"", "\\", "\\", "'", "\"", ";">>),
      Rep(Ord("a"), 256),
      Rep(Ord("a"), 257) }

\* every punctuation character, alone and before each kind of character
PunctPairs ==
    {<<p>> \o s : p \in {c \in 32..126 : PunctType(c) # "NONE"},
                  s \in SeqsUpTo(Alphabet, 1)}

\* the statement let x = 1_2 + 3; with each of its five gaps filled by a
\* blank, by tab and newline, or by carriage return, blank, vertical tab
\* and form feed
Gaps == {Str(<<" ">>), <<TAB, NL>>, <<13, 32, 11, 12>>}
LetStatements ==
    {Str(<<"l", "e", "t">>) \o g[1] \o Str(<<"x">>) \o g[2] \o Str(<<"=">>) \o g[3]
        \o Str(<<"1", "_", "2">>) \o g[4] \o Str(<<"+">>) \o g[5] \o Str(<<"3", ";">>) :
     g \in [1..5 -> Gaps]}

Inputs ==
    ShortInputs \cup LiteralInputs \cup Scenarios \cup PunctPairs \cup LetStatements

---------------------------------------------------------------------------
(* Program constants *)

\* take_ident's char buf[256]
IdentBufSize == 256
\* take_string's initial cap
InitCap == 1024
INT_MAX == 2147483647

---------------------------------------------------------------------------
(* The start: main has opened the file and calls next_token.  main's tok   *)
(* and the locals of the take_* functions hold no value yet; each is        *)
(* written before it is read, so the value given here is never used.        *)

Init ==
    /\ input \in Inputs
    /\ pos = 0
    /\ pc = "scan"
    /\ tok = ZeroTok("EOF")
    /\ printed = <<>>
    /\ buf = <<>>
    /\ cap = 0
    /\ escaping = FALSE
    /\ quote = NUL
    /\ out = 0
    /\ diag = <<>>
    /\ tokStart = 0
    /\ extra = 0

---------------------------------------------------------------------------
(* next_token: one pass of its for(;;) *)

\* Which way one pass of the loop goes for the char c it took, nxt being
\* the char a peek after it returns: the switch first, then the tests that
\* follow it, in the order of the source.
ScanClass(c, nxt) ==
    IF PunctType(c) # "NONE" THEN "punct"
    ELSE IF c = SLASH /\ nxt = SLASH THEN "comment"
    ELSE IF c \in {SQUOTE, DQUOTE} THEN "quote"
    ELSE IF isspace(c) THEN "space"
    ELSE IF isalpha(c) \/ c = UNDERSCORE THEN "ident"
    ELSE IF isdigit(c) THEN "num"
    ELSE IF c = EOF THEN "eof"
    ELSE "unexpected"

\* the char the pass takes, and the class of the pass
Taken == TakeChar(pos)
Class == ScanClass(Taken.ch, PeekChar(Taken.pos).ch)

\* case '+' .. case '=': return the punctuation token
ScanPunct ==
    /\ pc = "scan"
    /\ Class = "punct"
    /\ tok' = ZeroTok(PunctType(Taken.ch))
    /\ pos' = Taken.pos
    /\ tokStart' = pos
    /\ pc' = "print"
    /\ UNCHANGED <<input, printed, buf, cap, escaping, quote, out, diag, extra>>

\* case '/' with a second '/' behind it: take that one too, enter the loop
ScanComment ==
    /\ pc = "scan"
    /\ Class = "comment"
    /\ pos' = TakeChar(PeekChar(Taken.pos).pos).pos
    /\ tokStart' = pos
    /\ pc' = "comment_peek"
    /\ UNCHANGED <<input, tok, printed, buf, cap, escaping, quote, out, diag, extra>>

\* the comment loop's condition: (p = peek_char(f)) != '\n' && p != '\0'
CommentPeek ==
    /\ pc = "comment_peek"
    /\ LET p == PeekChar(pos)
       IN  /\ pos' = p.pos
           /\ pc' = IF p.ch # NL /\ p.ch # NUL THEN "comment_take" ELSE "scan"
    /\ UNCHANGED <<input, tok, printed, buf, cap, escaping, quote, out, diag,
                   tokStart, extra>>

\* the comment loop's body: take_char(f)
CommentTake ==
    /\ pc = "comment_take"
    /\ pos' = TakeChar(pos).pos
    /\ pc' = "comment_peek"
    /\ UNCHANGED <<input, tok, printed, buf, cap, escaping, quote, out, diag,
                   tokStart, extra>>

\* a target_quote that does not look at single_quote
TargetQuoteAlwaysDouble(single_quote) == DQUOTE

\* take_string's target_quote
TargetQuote(single_quote) == IF single_quote THEN SQUOTE ELSE DQUOTE

\* case '\'', case '"': call take_string, which sets up its locals
ScanQuote ==
    /\ pc = "scan"
    /\ Class = "quote"
    /\ pos' = Taken.pos
    /\ tokStart' = pos
    /\ cap' = InitCap
    /\ buf' = <<>>
    /\ escaping' = FALSE
    /\ quote' = TargetQuote(Taken.ch = SQUOTE)
    /\ pc' = "string"
    /\ UNCHANGED <<input, tok, printed, out, diag, extra>>

\* if (isspace(c)) continue
ScanSpace ==
    /\ pc = "scan"
    /\ Class = "space"
    /\ pos' = Taken.pos
    /\ UNCHANGED <<input, pc, tok, printed, buf, cap, escaping, quote, out,
                   diag, tokStart, extra>>

\* isalpha(c) || c == '_': push c back and call take_ident
ScanIdent ==
    /\ pc = "scan"
    /\ Class = "ident"
    /\ pos' = Ungetc(Taken.ch, Taken.pos)
    /\ tokStart' = pos
    /\ buf' = <<>>
    /\ pc' = "ident"
    /\ UNCHANGED <<input, tok, printed, cap, escaping, quote, out, diag, extra>>

\* isdigit(c): push c back and call take_num
ScanNum ==
    /\ pc = "scan"
    /\ Class = "num"
    /\ pos' = Ungetc(Taken.ch, Taken.pos)
    /\ tokStart' = pos
    /\ out' = 0
    /\ pc' = "num"
    /\ UNCHANGED <<input, tok, printed, buf, cap, escaping, quote, diag, extra>>

\* if (c == EOF) return (Token){ 0 }
ScanEof ==
    /\ pc = "scan"
    /\ Class = "eof"
    /\ tok' = ZeroTok("EOF")
    /\ pos' = Taken.pos
    /\ tokStart' = pos
    /\ pc' = "print"
    /\ UNCHANGED <<input, printed, buf, cap, escaping, quote, out, diag, extra>>

\* PANIC("Unexpected token '%c'", c); a '/' gets here after the peek that
\* found no second '/'
ScanUnexpected ==
    /\ pc = "scan"
    /\ Class = "unexpected"
    /\ pos' = IF Taken.ch = SLASH THEN PeekChar(Taken.pos).pos ELSE Taken.pos
    /\ tokStart' = pos
    /\ diag' = <<Taken.ch>>
    /\ pc' = "panic"
    /\ UNCHANGED <<input, tok, printed, buf, cap, escaping, quote, out, extra>>

---------------------------------------------------------------------------
(* take_string: one iteration of its while loop *)

\* the switch without its case 't'
EscapeCharNoTab(c) == IF c = Ord("n") THEN NL ELSE c

\* the switch on an escaped char
EscapeChar(c) ==
    CASE c = Ord("n") -> NL
      [] c = Ord("t") -> TAB
      [] OTHER -> c

\* the char an iteration goes on with
Mapped(c) == IF escaping THEN EscapeChar(c) ELSE c

\* the loop's condition: (c = take_char(f)) != target_quote || escaping
StringGoesOn(c) == c # quote \/ escaping

\* the test that tells a char to append from a backslash that starts an escape
Appends(c) == escaping \/ c # BACKSLASH

\* if (len >= cap - 1) buf = realloc(buf, cap *= 2)
\* the same with the test the wrong way round
GrowInverted(len, cp) == IF len < cp - 1 THEN cp * 2 ELSE cp

Grow(len, cp) == IF len >= cp - 1 THEN cp * 2 ELSE cp

\* the number of chars at the end of s that have the value of EOF
EofRun(s) ==
    LET others == {i \in 1..Len(s) : s[i] # EOF}
    IN  IF others = {} THEN Len(s)
        ELSE Len(s) - (CHOOSE i \in others : \A j \in others : j <= i)

\* The model follows the loop through MaxEofAppends appends at the end of
\* the file and no further.
StringFollowed == pos < Len(input) \/ EofRun(buf) < MaxEofAppends

\* the loop ends: buf[len] = '\0'; return buf; next_token returns the token
StringClose ==
    /\ pc = "string"
    /\ ~StringGoesOn(TakeChar(pos).ch)
    /\ pos' = TakeChar(pos).pos
    /\ tok' = TextTok("STRING", buf)
    /\ pc' = "print"
    /\ UNCHANGED <<input, printed, buf, cap, escaping, quote, out, diag,
                   tokStart, extra>>

\* the body's first branch: buf[len++] = c; escaping = false
StringAppend ==
    /\ pc = "string"
    /\ StringFollowed
    /\ StringGoesOn(TakeChar(pos).ch)
    /\ Appends(Mapped(TakeChar(pos).ch))
    /\ pos' = TakeChar(pos).pos
    /\ cap' = Grow(Len(buf), cap)
    /\ buf' = Append(buf, Mapped(TakeChar(pos).ch))
    /\ escaping' = FALSE
    /\ UNCHANGED <<input, pc, tok, printed, quote, out, diag, tokStart, extra>>

\* the body's second branch: escaping = true; continue
StringEscape ==
    /\ pc = "string"
    /\ StringGoesOn(TakeChar(pos).ch)
    /\ ~Appends(Mapped(TakeChar(pos).ch))
    /\ pos' = TakeChar(pos).pos
    /\ escaping' = TRUE
    /\ UNCHANGED <<input, pc, tok, printed, buf, cap, quote, out, diag,
                   tokStart, extra>>

---------------------------------------------------------------------------
(* take_ident: one iteration of its while loop *)

\* the loop's condition on the char peeked
IdentGoesOn(c) == isalnum(c) \/ c = UNDERSCORE

\* What buf[str_len++] = c can do with str_len chars stored: inside the
\* array it stores; at index 256 and beyond it writes outside buf, which
\* either goes unnoticed or kills the process.
IdentWriteOutcomes(str_len) ==
    IF str_len < IdentBufSize THEN {"stored"} ELSE {"stored", "crash"}

\* take_char(f); buf[str_len++] = c
IdentTake ==
    /\ pc = "ident"
    /\ IdentGoesOn(PeekChar(pos).ch)
    /\ pos' = TakeChar(PeekChar(pos).pos).pos
    /\ \E o \in IdentWriteOutcomes(Len(buf)) :
          /\ buf' = Append(buf, PeekChar(pos).ch)
          /\ pc' = IF o = "stored" THEN "ident" ELSE "crash"
    /\ UNCHANGED <<input, tok, printed, cap, escaping, quote, out, diag,
                   tokStart, extra>>

\* the loop ends: copy the text out; next_token classifies it and returns
IdentDone ==
    /\ pc = "ident"
    /\ ~IdentGoesOn(PeekChar(pos).ch)
    /\ pos' = PeekChar(pos).pos
    /\ tok' = IF ident_to_token_type(buf) = "IDENT"
              THEN TextTok("IDENT", buf)
              ELSE ZeroTok(ident_to_token_type(buf))
    /\ pc' = "print"
    /\ UNCHANGED <<input, printed, buf, cap, escaping, quote, out, diag,
                   tokStart, extra>>

---------------------------------------------------------------------------
(* take_num: one iteration of its while loop *)

\* the loop's condition on the char peeked
NumGoesOn(c) == isdigit(c) \/ c = UNDERSCORE

\* whether out *= 10; out += d leaves the range of int
Overflows(o, d) ==
    \/ o > INT_MAX \div 10
    \/ o < -(INT_MAX \div 10)
    \/ o = INT_MAX \div 10 /\ d > INT_MAX % 10

\* out * 10 + d in 32-bit two's complement, computed on 16-bit halves
MulAdd32(o, d) ==
    LET hi == (o \div 65536) % 65536
        lo == o % 65536
        t  == lo * 10 + d
        L  == t % 65536
        H  == (hi * 10 + t \div 65536) % 65536
    IN  IF H >= 32768 THEN (H - 65536) * 65536 + L ELSE H * 65536 + L

\* What out *= 10; out += c - '0' can do: in range it computes; out of range
\* it is signed overflow, which wraps around or traps.
NumStepOutcomes(o, d) ==
    IF Overflows(o, d) THEN {"wrap", "trap"} ELSE {"exact"}

\* take_char(f); skip an underscore, else accumulate the digit
NumTake ==
    /\ pc = "num"
    /\ NumGoesOn(PeekChar(pos).ch)
    /\ pos' = TakeChar(PeekChar(pos).pos).pos
    /\ LET c == PeekChar(pos).ch
       IN  IF c = UNDERSCORE
           THEN UNCHANGED <<out, pc>>
           ELSE \E o \in NumStepOutcomes(out, c - Ord("0")) :
                   /\ out' = MulAdd32(out, c - Ord("0"))
                   /\ pc' = IF o = "trap" THEN "crash" ELSE "num"
    /\ UNCHANGED <<input, tok, printed, buf, cap, escaping, quote, diag,
                   tokStart, extra>>

\* the loop ends: return out; next_token returns the Number token
NumDone ==
    /\ pc = "num"
    /\ ~NumGoesOn(PeekChar(pos).ch)
    /\ pos' = PeekChar(pos).pos
    /\ tok' = NumberTok(out)
    /\ pc' = "print"
    /\ UNCHANGED <<input, printed, buf, cap, escaping, quote, out, diag,
                   tokStart, extra>>

---------------------------------------------------------------------------
(* main *)

\* the same as a while loop: the token is tested before it is printed
MainPrintTestFirst ==
    /\ pc = "print"
    /\ printed' = IF tok.type # "EOF" THEN Append(printed, PrintTok(tok)) ELSE printed
    /\ pc' = IF tok.type # "EOF" THEN "scan" ELSE "done"
    /\ UNCHANGED <<input, pos, tok, buf, cap, escaping, quote, out, diag,
                   tokStart, extra>>

\* print_tok(tok); while (tok.type != TOK_EOF): call next_token again or
\* return 0
MainPrint ==
    /\ pc = "print"
    /\ printed' = Append(printed, PrintTok(tok))
    /\ pc' = IF tok.type # "EOF" THEN "scan" ELSE "done"
    /\ UNCHANGED <<input, pos, tok, buf, cap, escaping, quote, out, diag,
                   tokStart, extra>>

\* A client that, unlike main, calls next_token again on the same stream
\* after TOK_EOF came back, and prints what it gets.
CallAgain ==
    /\ pc = "done"
    /\ extra < MaxExtraCalls
    /\ extra' = extra + 1
    /\ pc' = "scan"
    /\ UNCHANGED <<input, pos, tok, printed, buf, cap, escaping, quote, out,
                   diag, tokStart>>

NextToken ==
    \/ ScanPunct \/ ScanComment \/ ScanQuote \/ ScanSpace \/ ScanIdent
    \/ ScanNum \/ ScanEof \/ ScanUnexpected
    \/ CommentPeek \/ CommentTake
    \/ StringClose \/ StringAppend \/ StringEscape
    \/ IdentTake \/ IdentDone
    \/ NumTake \/ NumDone

\* the program
Next == NextToken \/ MainPrint

Spec == Init /\ [][Next]_vars

\* The program runs on: a step is taken whenever one can be.
FairSpec == Spec /\ WF_vars(Next)

\* next_token under a client that keeps calling it
NextAPI == Next \/ CallAgain

SpecAPI == Init /\ [][NextAPI]_vars

\* The program run on the files above and on a string literal whose body is
\* longer than take_string's initial capacity.
LongLiteral == <<DQUOTE>> \o Rep(Ord("a"), InitCap + 1) \o <<DQUOTE>>
InitLong ==
    /\ input \in Inputs \cup {LongLiteral}
    /\ pos = 0
    /\ pc = "scan"
    /\ tok = ZeroTok("EOF")
    /\ printed = <<>>
    /\ buf = <<>>
    /\ cap = 0
    /\ escaping = FALSE
    /\ quote = NUL
    /\ out = 0
    /\ diag = <<>>
    /\ tokStart = 0
    /\ extra = 0
SpecLong == InitLong /\ [][Next]_vars

---------------------------------------------------------------------------
(* What the properties below speak of, read off the input alone *)

\* next_token has returned tok and main has not used it yet
Returned == pc = "print"

\* the process was ended by exit(1) after a diagnostic / by the system
Aborted == pc = "panic"
Killed == pc = "crash"

DigitBytes == Ord("0")..Ord("9")
LetterBytes == (Ord("a")..Ord("z")) \cup (Ord("A")..Ord("Z"))
PunctBytes ==
    {Ord("+"), Ord("-"), Ord("("), Ord(")"), Ord("{"), Ord("}"), Ord("["),
     Ord("]"), Ord(";"), Ord("=")}
SpaceBytes == {Ord(" "), TAB, NL, 11, 12, 13}
QuoteBytes == {SQUOTE, DQUOTE}

\* the end of the longest run of bytes of S that starts right after
\* position p
RunEnd(p, S) ==
    CHOOSE e \in p..Len(input) :
        /\ \A i \in (p + 1)..e : input[i] \in S
        /\ e = Len(input) \/ input[e + 1] \notin S

\* the bytes of the run
RunAt(p, S) == SubSeq(input, p + 1, RunEnd(p, S))

\* chars as the bytes they are stored in
AsBytes(s) == [i \in 1..Len(s) |-> (s[i] + 256) % 256]

---------------------------------------------------------------------------
(* C1 *)

\* next_token is inside the loop that skips a line comment
InComment == pc \in {"comment_peek", "comment_take"}

\* C1: on every finite input every call of next_token terminates, by
\* returning a token or by aborting, so that main's loop never runs forever;
\* in particular when the input ends inside a line comment: a call that has
\* entered the comment loop eventually leaves it.
C1_CallTerminates == InComment ~> ~InComment

---------------------------------------------------------------------------
(* C2 *)

\* a call of next_token has returned the EOF token
EofReturned ==
    \/ Returned /\ tok.type = "EOF"
    \/ \E i \in 1..Len(printed) : printed[i].name = names["EOF"]

\* C2: once a call of next_token has returned the EOF token, every later
\* call on the same stream returns the EOF token again, does not abort, and
\* leaves the stream position where it was.
C2_EofIsStable ==
    [][EofReturned =>
          /\ pos' = pos
          /\ ~Aborted' /\ ~Killed'
          /\ (Returned' => tok'.type = "EOF")]_vars

---------------------------------------------------------------------------
(* C3 *)

\* the digits of a run of digits and underscores, as numbers
DigitsOf(run) ==
    LET at == {i \in 1..Len(run) : run[i] \in DigitBytes}
        nth(k) == CHOOSE i \in at : Cardinality({j \in at : j <= i}) = k
    IN  [k \in 1..Cardinality(at) |-> run[nth(k)] - Ord("0")]

\* a sequence of digits without its leading zeros (one digit is kept)
RECURSIVE StripZeros(_)
StripZeros(d) ==
    IF Len(d) > 1 /\ Head(d) = 0 THEN StripZeros(Tail(d)) ELSE d

\* the decimal digits of a natural number
RECURSIVE Decimal(_)
Decimal(n) == IF n < 10 THEN <<n>> ELSE Append(Decimal(n \div 10), n % 10)

\* the run of digits and underscores the current token starts
NumberRun == RunAt(tokStart, DigitBytes \cup {UNDERSCORE})

\* the current call met a digit at the start of a token
AtNumber == tokStart < Len(input) /\ input[tokStart + 1] \in DigitBytes

\* C3: a run of digits and underscores of any length that starts with a
\* digit makes next_token return a Number token whose value is the integer
\* its digits spell, underscores left out, and the whole run is consumed.
C3_NumberValue ==
    (Returned /\ tok.type = "NUMBER") =>
        /\ AtNumber
        /\ tok.value = "int"
        /\ tok.num >= 0
        /\ Decimal(tok.num) = StripZeros(DigitsOf(NumberRun))
        /\ pos >= tokStart + Len(NumberRun)

---------------------------------------------------------------------------
(* C4 *)

IdentBytes == LetterBytes \cup DigitBytes \cup {UNDERSCORE}

\* the run of letters, digits and underscores the current token starts
IdentRun == RunAt(tokStart, IdentBytes)

\* the current call met a letter or an underscore at the start of a token
AtIdent ==
    tokStart < Len(input) /\ input[tokStart + 1] \in LetterBytes \cup {UNDERSCORE}

\* C4: a maximal run of letters, digits and underscores of any length that
\* starts with a letter or an underscore makes next_token return an
\* Identifier token whose text is that run, unless the run is exactly let,
\* for which it returns the Let token with a zero payload.
C4_IdentifierText ==
    /\ (pc \in {"ident", "crash"} /\ AtIdent) => ~Killed
    /\ (Returned /\ AtIdent) =>
          IF IdentRun = Str(<<"l", "e", "t">>)
          THEN tok = ZeroTok("LET")
          ELSE tok = TextTok("IDENT", IdentRun)

---------------------------------------------------------------------------
(* C5 *)

\* The index of the first byte at or after index i that is q and is not
\* escaped, esc telling whether the byte at i is escaped; 0 if there is none.
RECURSIVE FindClose(_, _, _)
FindClose(i, esc, q) ==
    IF i > Len(input) THEN 0
    ELSE IF esc THEN FindClose(i + 1, FALSE, q)
    ELSE IF input[i] = BACKSLASH THEN FindClose(i + 1, TRUE, q)
    ELSE IF input[i] = q THEN i
    ELSE FindClose(i + 1, FALSE, q)

\* the byte an escaped byte stands for
Unescaped(b) ==
    IF b = Ord("n") THEN NL ELSE IF b = Ord("t") THEN TAB ELSE b

\* the decoded content of the source text between the quotes of a literal
RECURSIVE Decode(_)
Decode(src) ==
    IF src = <<>> THEN <<>>
    ELSE IF Head(src) # BACKSLASH THEN <<Head(src)>> \o Decode(Tail(src))
    ELSE IF Len(src) = 1 THEN <<>>
    ELSE <<Unescaped(src[2])>> \o Decode(SubSeq(src, 3, Len(src)))

\* the current call met a quote at the start of a token
AtString == tokStart < Len(input) /\ input[tokStart + 1] \in QuoteBytes

\* the index of the quote that closes the literal the current token starts
CloseIndex == FindClose(tokStart + 2, FALSE, input[tokStart + 1])

\* C5: for every terminated string literal next_token returns a String
\* token whose text is the decoded content between the quotes: a backslash
\* is not appended and escapes the next character; escaped n is newline,
\* escaped t is tab, every other escaped character (a backslash, the opening
\* quote) is itself and does not close the literal; the quotes are consumed
\* and are not part of the text.
C5_StringDecoded ==
    /\ (Returned /\ tok.type = "STRING") =>
          /\ AtString
          /\ CloseIndex > 0
          /\ pos = CloseIndex
          /\ tok.value = "ptr"
          /\ AsBytes(tok.str) = Decode(SubSeq(input, tokStart + 2, CloseIndex - 1))
    /\ (pc = "string" /\ CloseIndex > 0) => pos < CloseIndex

\* C5's case: the literal "hi\n\t\"\\'" has been scanned, with its escaped
\* n, t, quote and backslash
C5_Witness ==
    /\ Returned /\ tok.type = "STRING"
    /\ SubSeq(input, tokStart + 1, pos) =
          Str(<<"\"", "h", "i", "\\", "n", "\\", "t", "\\", "\"", "\\", "\\", "'", "\"">>)
    /\ tok.str = Str(<<"h", "i">>) \o <<NL, TAB>> \o Str(<<"\"", "\\", "'">>)

---------------------------------------------------------------------------
(* C6 *)

\* the quote that is not q
OtherQuote(q) == IF q = SQUOTE THEN DQUOTE ELSE SQUOTE

\* C6: a string literal is closed only by an unescaped occurrence of the
\* quote that opened it; an unescaped quote of the other kind inside it is
\* appended as content and does not end it.
C6_OnlyOwnQuoteCloses ==
    [][pc = "string" =>
          /\ (pc' # "string" =>
                /\ pos < Len(input)
                /\ input[pos + 1] = input[tokStart + 1]
                /\ ~escaping)
          /\ (pos < Len(input) /\ ~escaping
                /\ input[pos + 1] = OtherQuote(input[tokStart + 1]) =>
                /\ pc' = "string"
                /\ buf' = Append(buf, input[pos + 1]))]_vars

\* C6's case: a literal opened with ' holding an unescaped " has been
\* scanned, or the other way round
C6_Witness ==
    /\ Returned /\ tok.type = "STRING"
    /\ pos = tokStart + 3
    /\ tok.str = <<OtherQuote(input[tokStart + 1])>>

---------------------------------------------------------------------------
(* C7 *)

\* C7: when the input ends inside a string literal next_token aborts with
\* a fatal error: it reads no further, appends no end-of-input marker to the
\* literal and returns no String token.
C7_UnterminatedStringAborts ==
    [][(pc = "string" /\ pos = Len(input)) =>
          (Aborted' /\ buf' = buf)]_vars

---------------------------------------------------------------------------
(* C8 *)

\* C8: a line comment that runs to the end of the input without a newline
\* is consumed up to the end of the input and yields no token: the comment
\* loop stops there and the call goes on to return the EOF token.
C8_CommentEndsAtEndOfInput ==
    [][(InComment /\ pos = Len(input)) =>
          (pc' = "scan" \/ (Returned' /\ tok'.type = "EOF"))]_vars

---------------------------------------------------------------------------
(* C9 *)

\* the lines main prints for the input // comment\n-5
MinusFiveLines ==
    <<PrintTok(ZeroTok("MINUS")), PrintTok(NumberTok(5)), PrintTok(ZeroTok("EOF"))>>

\* C9: a line comment followed by a newline yields no token whatever it
\* holds before the newline: the comment loop consumes every byte up to the
\* newline and not the newline, which the scan then skips as whitespace
\* before it returns the token behind it; // comment\n-5 prints
\* Minus, Number 5, EOF.
C9_CommentStopsAtNewline ==
    [][/\ InComment => \A i \in (pos + 1)..pos' : input[i] # NL
       /\ (InComment /\ ~InComment' /\ \E i \in (pos + 1)..Len(input) : input[i] = NL) =>
             /\ pos' < Len(input)
             /\ input[pos' + 1] = NL
             /\ pc' = "scan"
       /\ (pc' = "done" /\ input = Str(<<"/", "/", " ", "c", "o", "m", "m", "e", "n", "t">>)
                                      \o <<NL>> \o Str(<<"-", "5">>)) =>
             printed' = MinusFiveLines]_vars

---------------------------------------------------------------------------
(* C10 *)

\* the byte behind position p starts no token, no whitespace and no comment
Unrecognized(p) ==
    /\ p < Len(input)
    /\ input[p + 1] \notin PunctBytes \cup SpaceBytes \cup QuoteBytes
                           \cup LetterBytes \cup DigitBytes \cup {UNDERSCORE}
    /\ ~(input[p + 1] = SLASH /\ p + 1 < Len(input) /\ input[p + 2] = SLASH)

\* C10: a character at the start of a token that is no punctuation mark,
\* whitespace, quote, letter, underscore or digit, nor a / followed by a /,
\* makes next_token abort with a diagnostic that names it; no token is
\* returned and the character is not skipped.  A / on its own is such a
\* character.
C10_UnknownCharAborts ==
    [][(pc = "scan" /\ Unrecognized(pos)) =>
          /\ Aborted'
          /\ AsBytes(diag') = <<input[pos + 1]>>
          /\ tok' = tok /\ printed' = printed]_vars

---------------------------------------------------------------------------
(* C11 *)

\* the kind of token each punctuation character stands for
PunctKinds ==
    { <<Ord("+"), "PLUS">>, <<Ord("-"), "MINUS">>, <<Ord("("), "LPAREN">>,
      <<Ord(")"), "RPAREN">>, <<Ord("{"), "LBRACE">>, <<Ord("}"), "RBRACE">>,
      <<Ord("["), "LBRACKET">>, <<Ord("]"), "RBRACKET">>,
      <<Ord(";"), "SEMICOLON">>, <<Ord("="), "EQUALS">> }
PunctKind(b) == CHOOSE k \in TokenTypes : <<b, k>> \in PunctKinds

\* C11: with one of the ten punctuation characters + - ( ) { } [ ] ; = at
\* the cursor, the step next_token takes returns the token of the matching
\* kind and moves the cursor by exactly one character, whatever follows.
C11_PunctuationToken ==
    [][(pc = "scan" /\ pos < Len(input) /\ input[pos + 1] \in PunctBytes) =>
          /\ Returned'
          /\ tok'.type = PunctKind(input[pos + 1])
          /\ pos' = pos + 1
          /\ printed' = printed]_vars

\* a ']' with a character behind it has been returned as RBracket
C11_Witness ==
    /\ Returned
    /\ pos = tokStart + 1
    /\ pos < Len(input)
    /\ input[pos] = Ord("]")
    /\ tok.type = "RBRACKET"

---------------------------------------------------------------------------
(* C12 *)

\* the lines of Let, Identifier x, Equals, Number 12, Plus, Number 3,
\* Semicolon, EndOfInput
LetLines ==
    <<PrintTok(ZeroTok("LET")), PrintTok(TextTok("IDENT", Str(<<"x">>))),
      PrintTok(ZeroTok("EQUALS")), PrintTok(NumberTok(12)),
      PrintTok(ZeroTok("PLUS")), PrintTok(NumberTok(3)),
      PrintTok(ZeroTok("SEMICOLON")), PrintTok(ZeroTok("EOF"))>>

\* C12: whitespace between tokens is discarded: the step next_token takes
\* with a whitespace character at the cursor moves past it and changes
\* neither the token nor what was printed; let x = 1_2 + 3; prints Let,
\* Identifier x, Equals, Number 12, Plus, Number 3, Semicolon, EndOfInput,
\* and so does every file that differs from it only in the whitespace of
\* its gaps.
C12_WhitespaceDiscarded ==
    /\ [][(pc = "scan" /\ pos < Len(input) /\ input[pos + 1] \in SpaceBytes) =>
             /\ pos' = pos + 1
             /\ pc' = "scan"
             /\ tok' = tok
             /\ printed' = printed]_vars
    /\ [](input \in LetStatements =>
             /\ ~Aborted /\ ~Killed
             /\ Len(printed) <= Len(LetLines)
             /\ printed = SubSeq(LetLines, 1, Len(printed))
             /\ pc = "done" => printed = LetLines)

\* a statement with more than blanks in its gaps has been printed to the end
C12_Witness ==
    /\ pc = "done"
    /\ input \in LetStatements
    /\ \E i \in 1..Len(input) : input[i] = 12
    /\ printed = LetLines

---------------------------------------------------------------------------
(* C13 *)

\* the kinds of token that carry a payload
TextKinds == {"IDENT", "STRING"}
PayloadKinds == TextKinds \cup {"NUMBER"}

\* C13: every token next_token returns has the payload of its kind: text
\* that is not null for an Identifier or a String, the integer for a
\* Number, the zero payload for punctuation, Let and EndOfInput; and every
\* line print_tok writes shows a payload exactly when the token is a
\* Number (the integer), an Identifier or a String (the text).
C13_PayloadInvariant ==
    /\ Returned =>
          /\ tok.type \in TokenTypes
          /\ tok.type \in TextKinds => tok.value = "ptr"
          /\ tok.type = "NUMBER" => tok.value = "int"
          /\ tok.type \notin PayloadKinds =>
                tok.value = "zero" /\ tok.num = 0 /\ tok.str = <<>>
    /\ \A i \in 1..Len(printed) :
          \E t \in TokenTypes :
             /\ printed[i].name = names[t]
             /\ printed[i].shown =
                   (IF t = "NUMBER" THEN "num"
                    ELSE IF t \in TextKinds THEN "text" ELSE "none")

\* a Semicolon is returned after Let, an Identifier and a Number were
\* printed
C13_Witness ==
    /\ Returned
    /\ tok.type = "SEMICOLON"
    /\ \A t \in {"LET", "IDENT", "NUMBER"} :
          \E i \in 1..Len(printed) : printed[i].name = names[t]

---------------------------------------------------------------------------
(* C14 *)

\* the line of the EndOfInput token
EofLine == [name |-> "EOF", shown |-> "none", num |-> 0, text |-> <<>>]

\* C14: in main's loop every token next_token returns is printed next, and
\* nothing else is printed; the EndOfInput token is printed, once, as the
\* last line; after it next_token is not called again (the program takes no
\* further step); the empty file prints EndOfInput and nothing else.
C14_DriverLoop ==
    /\ [][/\ Returned => printed' = Append(printed, PrintTok(tok))
          /\ printed' # printed => Returned
          /\ pc # "done"]_vars
    /\ [](/\ \A i \in 1..Len(printed) :
                printed[i] = EofLine => i = Len(printed) /\ pc = "done"
          /\ pc = "done" =>
                /\ Len(printed) >= 1
                /\ printed[Len(printed)] = EofLine
                /\ input = <<>> => printed = <<EofLine>>)

\* main has ended after printing several tokens and EndOfInput
C14_Witness ==
    /\ pc = "done"
    /\ Len(printed) > 3
    /\ printed[Len(printed)] = EofLine

---------------------------------------------------------------------------
(* C15 *)

\* C15: next_token returns the EndOfInput token only at the true end of
\* the input: the call that returns it started with every byte of the file
\* read, whatever byte values 0..255 the file holds, so that main never
\* stops with bytes unread.
C15_EofOnlyAtEnd ==
    /\ (Returned /\ tok.type = "EOF") => tokStart = Len(input)
    /\ pc = "done" => pos = Len(input)

---------------------------------------------------------------------------
(* C16 *)

\* the lines of Identifier a, Plus, Number 1, Semicolon, EndOfInput
APlusOneLines ==
    <<PrintTok(TextTok("IDENT", Str(<<"a">>))), PrintTok(ZeroTok("PLUS")),
      PrintTok(NumberTok(1)), PrintTok(ZeroTok("SEMICOLON")),
      PrintTok(ZeroTok("EOF"))>>

\* C16: next_token consumes nothing beyond the token it returns: when an
\* Identifier, Let or Number token is returned the cursor stands at the end
\* of its run, so that the first byte outside the run is unread and is the
\* one the next call examines; a+1; prints Identifier a, Plus, Number 1,
\* Semicolon, EndOfInput.
C16_NothingBeyondTheToken ==
    /\ (Returned /\ tok.type \in {"IDENT", "LET"}) =>
          pos = RunEnd(tokStart, IdentBytes)
    /\ (Returned /\ tok.type = "NUMBER") =>
          pos = RunEnd(tokStart, DigitBytes \cup {UNDERSCORE})
    /\ (pc = "done" /\ input = Str(<<"a", "+", "1", ";">>)) =>
          printed = APlusOneLines

---------------------------------------------------------------------------
(* C17 *)

\* the indices of take_ident's buffer written so far by this call
IdentWritten == {i - 1 : i \in 1..Len(buf)}

\* C17: take_ident never writes outside its buffer and never truncates:
\* for a run of any length every index it has written lies within the
\* buffer, and the text of the Identifier returned is as long as the run.
C17_IdentWritesInBounds ==
    /\ pc \in {"ident", "crash"} =>
          \A i \in IdentWritten : i < IdentBufSize
    /\ (Returned /\ tok.type = "IDENT") =>
          Len(tok.str) = RunEnd(tokStart, IdentBytes) - tokStart

---------------------------------------------------------------------------
(* C18 *)

\* C18: the value of a Number token is never negative: take_num's
\* accumulator is within 0 .. 2^31-1 after every step out = out*10 + digit,
\* for digit runs of any length, with int a 32-bit signed integer.
C18_NumberNeverNegative ==
    /\ pc = "num" => out \in 0..INT_MAX
    /\ (Returned /\ tok.type = "NUMBER") => tok.num \in 0..INT_MAX

---------------------------------------------------------------------------
(* C19 *)

\* the capacities take_string's buffer can have: 1024 doubled some times
RECURSIVE IsCapacity(_)
IsCapacity(n) ==
    \/ n = InitCap
    \/ n > InitCap /\ n % 2 = 0 /\ IsCapacity(n \div 2)

\* C19: in take_string len <= cap - 1 holds before and after every
\* iteration of the loop; cap starts at 1024 and an append doubles it
\* exactly when len >= cap - 1 at that moment; hence the index of every
\* character written and the index of the terminator written at the end
\* are inside the capacity, for literals of any length.
C19_StringWithinCapacity ==
    /\ [](pc = "string" => IsCapacity(cap) /\ Len(buf) <= cap - 1)
    /\ []((Returned /\ tok.type = "STRING") => Len(tok.str) < cap)
    /\ [][(pc = "scan" /\ pc' = "string") => cap' = InitCap /\ Len(buf') = 0]_vars
    /\ [][(pc = "string" /\ buf' # buf) =>
             /\ Len(buf') = Len(buf) + 1
             /\ cap' = IF Len(buf) >= cap - 1 THEN 2 * cap ELSE cap
             /\ Len(buf) < cap']_vars
    /\ [][(pc = "string" /\ buf' = buf) => cap' = cap]_vars

\* the buffer has been doubled and written beyond its first capacity
C19_Witness ==
    /\ pc = "string"
    /\ cap = 2 * InitCap
    /\ Len(buf) > InitCap

=============================================================================
